---- MODULE Spec2Model ----
(***************************************************************************)
(* Role-gated entity management of the Staff Workload application: the     *)
(* StaffManagement (with its AddStaffForm), CourseManagement and           *)
(* TaskManagement components, the PopupMessage they show and the           *)
(* localStorage keys they persist to.                                      *)
(*                                                                         *)
(* One page (module) is mounted at a time (App.renderPage).  Every action  *)
(* is one handler or one completion callback run to completion, followed   *)
(* by the effects React runs after the render the handler caused (React 18 *)
(* batches the handler's state updates, then runs the effects whose        *)
(* dependencies changed).  Handlers are modelled at the handler boundary:  *)
(* their guards are the conditions of the code, not the conditions under   *)
(* which a button that calls them is rendered.                             *)
(*                                                                         *)
(* Text is a sequence of one-character strings, so that trim, toLowerCase, *)
(* includes, the digit-run match and padStart are computed as the code     *)
(* computes them.  Attributes the handlers never read (position, hours,    *)
(* credits, ...) are left out of the records; sample texts are shortened.  *)
(***************************************************************************)
EXTENDS Integers, Sequences, FiniteSets, TLC

\* ------------------------------------------------------------------ bounds
MaxMutations == 2  \* writes of a new collection (create, update, delete, upload) explored per behaviour
MaxPending == 1    \* submit timers pending at the same time
MaxReads == 2      \* file reads pending at the same time
MaxMounts == 2     \* activations of the module explored per behaviour
MaxWait == 2       \* handlers that run while a timer or a file read is pending
MaxRow == 1        \* row handlers are called on one of the first or the last MaxRow rows displayed

\* ------------------------------------------------------------ JS values
\* Text is a sequence of characters; the two non-texts a text-valued property
\* can hold are sequences too, so that they compare with texts.
Null == <<"null">>            \* JavaScript null
Undef == <<"undefined">>      \* a property the object does not have
Falsy(s) == s = <<>> \/ s = Null \/ s = Undef
NoRef == <<>>                 \* a null object reference (editingStaff, selectedStaff, ...)
Ref(r) == <<r>>               \* a reference to the object r

\* ------------------------------------------------------------------ text
Upper == {"A", "C", "D", "E", "F", "J", "M", "N", "O", "R", "S", "T", "U", "X"}
Digits == <<"0", "1", "2", "3", "4", "5", "6", "7", "8", "9">>

LowerOf(c) ==
    CASE c = "A" -> "a" [] c = "C" -> "c" [] c = "D" -> "d" [] c = "E" -> "e"
      [] c = "F" -> "f" [] c = "J" -> "j" [] c = "M" -> "m" [] c = "N" -> "n"
      [] c = "O" -> "o" [] c = "R" -> "r" [] c = "S" -> "s" [] c = "T" -> "t"
      [] c = "U" -> "u" [] c = "X" -> "x" [] OTHER -> c

toLowerCase(s) == [i \in 1..Len(s) |-> LowerOf(s[i])]

IsSpace(c) == c = " "

RECURSIVE trimStart(_)
trimStart(s) == IF s # <<>> /\ IsSpace(Head(s)) THEN trimStart(Tail(s)) ELSE s

RECURSIVE trimEnd(_)
trimEnd(s) ==
    IF s # <<>> /\ IsSpace(s[Len(s)]) THEN trimEnd(SubSeq(s, 1, Len(s) - 1)) ELSE s

trim(s) == trimEnd(trimStart(s))

includes(s, q) == \E i \in 0..(Len(s) - Len(q)) : SubSeq(s, i + 1, i + Len(q)) = q

startsWith(s, q) == Len(q) <= Len(s) /\ SubSeq(s, 1, Len(q)) = q

IsDigit(c) == \E d \in 1..10 : Digits[d] = c

DigitVal(c) == (CHOOSE d \in 1..10 : Digits[d] = c) - 1

\* the first maximal digit run of s (String.prototype.match(/\d+/)), or Null
RECURSIVE takeDigits(_)
takeDigits(s) ==
    IF s # <<>> /\ IsDigit(Head(s)) THEN <<Head(s)>> \o takeDigits(Tail(s)) ELSE <<>>

RECURSIVE matchDigits(_)
matchDigits(s) ==
    IF s = <<>> THEN Null
    ELSE IF IsDigit(Head(s)) THEN takeDigits(s)
    ELSE matchDigits(Tail(s))

RECURSIVE parseInt(_)
parseInt(ds) ==
    IF ds = <<>> THEN 0 ELSE 10 * parseInt(SubSeq(ds, 1, Len(ds) - 1)) + DigitVal(ds[Len(ds)])

RECURSIVE String(_)
String(n) == IF n < 10 THEN <<Digits[n + 1]>> ELSE String(n \div 10) \o <<Digits[(n % 10) + 1]>>

RECURSIVE padStart(_, _, _)
padStart(s, width, c) == IF Len(s) >= width THEN s ELSE padStart(<<c>> \o s, width, c)

\* ------------------------------------------------------------ sequences
RECURSIVE MaxOf(_)
MaxOf(ns) ==
    IF Len(ns) = 1 THEN ns[1]
    ELSE LET m == MaxOf(Tail(ns)) IN IF ns[1] >= m THEN ns[1] ELSE m

Ids(list) == [i \in 1..Len(list) |-> list[i].id]

\* --------------------------------------------------------------- records
StaffRec(id, staffId, name, email, department, profilePicture) ==
    [id |-> id, staffId |-> staffId, name |-> name, email |-> email,
     department |-> department, profilePicture |-> profilePicture]

CourseRec(id, courseId, courseCode, courseName, requiredQualification, semester) ==
    [id |-> id, courseId |-> courseId, courseCode |-> courseCode, courseName |-> courseName,
     requiredQualification |-> requiredQualification, semester |-> semester]

TaskRec(id, taskId, taskName, description) ==
    [id |-> id, taskId |-> taskId, taskName |-> taskName, description |-> description]

\* the names of the properties the handlers read of a record of kind k
Fields(k) ==
    CASE k = "Staff" -> {"id", "staffId", "name", "email", "department", "profilePicture"}
      [] k = "Course" -> {"id", "courseId", "courseCode", "courseName", "requiredQualification", "semester"}
      [] k = "Task" -> {"id", "taskId", "taskName", "description"}

\* r has a value for its property f (the id, the department and the semester
\* always have one; the other properties hold texts, or are undefined)
Has(r, f) == f \in {"id", "department", "semester"} \/ r[f] # Undef

\* the sample sets the modules seed (texts shortened, unread attributes left out)
StaffSample ==
    << StaffRec(1, Undef, <<"D", "J">>, <<"j", "@", "u">>, "Computer Science", Undef),
       StaffRec(2, Undef, <<"D", "S">>, <<"s", "@", "u">>, "Mathematics", Undef),
       StaffRec(3, Undef, <<"D", "M">>, <<"m", "@", "u">>, "Physics", Undef),
       StaffRec(4, Undef, <<"D", "E">>, <<"e", "@", "u">>, "Computer Science", Undef),
       StaffRec(5, Undef, <<"D", "D">>, <<"d", "@", "u">>, "Mathematics", Undef) >>

CourseSample ==
    << CourseRec(1, Undef, <<"C", "S", "1", "0", "1">>, <<"I">>, Undef, "Semester 1"),
       CourseRec(2, Undef, <<"C", "S", "2", "0", "1">>, <<"D">>, Undef, "Semester 2"),
       CourseRec(3, Undef, <<"M", "1", "0", "1">>, <<"C">>, Undef, "Semester 1"),
       CourseRec(4, Undef, <<"P", "1", "0", "1">>, <<"P">>, Undef, "Semester 1"),
       CourseRec(5, Undef, <<"C", "S", "3", "0", "1">>, <<"D">>, Undef, "Semester 2"),
       CourseRec(6, Undef, <<"M", "2", "0", "1">>, <<"L">>, Undef, "Semester 2"),
       CourseRec(7, Undef, <<"C", "S", "4", "0", "1">>, <<"S">>, Undef, "Semester 1"),
       CourseRec(8, Undef, <<"C", "H", "1", "0", "1">>, <<"G">>, Undef, "Semester 1") >>

TaskSample ==
    << TaskRec(1, <<"T", "0", "0", "1">>, <<"R">>, <<"r">>),
       TaskRec(2, <<"T", "0", "0", "2">>, <<"P">>, <<"c">>),
       TaskRec(3, <<"T", "0", "0", "3">>, <<"U">>, <<"u">>) >>

Sample(k) == CASE k = "Staff" -> StaffSample [] k = "Course" -> CourseSample [] k = "Task" -> TaskSample

\* ---------------------------------------------------------- localStorage
Kinds == {"Staff", "Course", "Task"}
Key(k) == CASE k = "Staff" -> "staffMembers" [] k = "Course" -> "courses" [] k = "Task" -> "tasks"
Keys == {Key(k) : k \in Kinds}

\* what getItem returns: no item, the empty string, a text that is not JSON, or
\* JSON text (of an array of records, or of a value that is no array)
Absent == [t |-> "absent", array |-> FALSE, v |-> <<>>]
EmptyText == [t |-> "empty", array |-> FALSE, v |-> <<>>]
Garbage == [t |-> "garbage", array |-> FALSE, v |-> <<>>]
NonArray == [t |-> "json", array |-> FALSE, v |-> <<>>]

\* the text of an object with a property of the value undefined written as null
Members_UndefinedAsNull(r) == [f \in DOMAIN r |-> IF Has(r, f) THEN r[f] ELSE Null]

\* the text of an object: JSON.stringify writes no property whose value is undefined
Members(r) == [f \in {g \in DOMAIN r : Has(r, g)} |-> r[f]]

\* JSON.stringify(list): the text of the array of the records' texts
JSONstringify(list) == [t |-> "json", array |-> TRUE, v |-> [i \in 1..Len(list) |-> Members(list[i])]]

\* the test of the saved item taking the text of an empty array for no item
Truthy_NotEmptyArray(item) ==
    item.t \notin {"absent", "empty"} /\ ~(item.t = "json" /\ item.array /\ item.v = <<>>)

\* if (savedStaff): null and the empty string are falsy
Truthy(item) == item.t \notin {"absent", "empty"}
\* JSON.parse throws a SyntaxError on a text that is not JSON
ParseThrows(item) == item.t # "json"
\* JSON.parse(text), as the handlers read it: a property the text of an object
\* does not have reads as undefined
ObjectOf(k, m) == [f \in Fields(k) |-> IF f \in DOMAIN m THEN m[f] ELSE Undef]
JSONparse(k, item) == [i \in 1..Len(item.v) |-> ObjectOf(k, item.v[i])]

\* the collections found under the key at activation, besides the sample set
StoredB(k) ==
    CASE k = "Staff" ->
            << StaffRec(1, <<"S", "T", "A", "F", "F", "0", "0", "2">>, <<"D", "J">>, <<"j", "@", "u">>, "Computer Science", Undef),
               StaffRec(3, Undef, <<"D", "M">>, <<"m", "@", "u">>, "Physics", <<"data:A">>),
               StaffRec(5, <<"S", "7">>, <<"d", "j">>, <<"S", "@", "u">>, "Mathematics", Undef) >>
      [] k = "Course" ->
            << CourseRec(1, <<"C", "O", "U", "R", "S", "E", "0", "0", "2">>, <<"C", "S", "1">>, <<"I">>, <<"q">>, "Semester 1"),
               CourseRec(3, Undef, <<"M", "1", "0", "1">>, <<"C">>, Undef, "Semester 1"),
               CourseRec(5, <<"C", "7">>, <<"C", "S", "3">>, <<"D">>, <<"q">>, "Semester 2") >>
      [] k = "Task" ->
            << TaskRec(1, <<"T", "0", "0", "2">>, <<"R">>, <<"r">>),
               TaskRec(3, Undef, <<"P">>, <<"c">>),
               TaskRec(5, <<"T", "7">>, <<"U">>, <<"u">>) >>

StoredLists(k) == {<<>>, StoredB(k)}

\* the texts found under the key at activation: of an empty array, and of the
\* array of StoredB's objects, each written with the properties it has
StoredTexts(k) ==
    { [t |-> "json", array |-> TRUE,
       v |-> [i \in 1..Len(l) |-> [f \in {g \in Fields(k) : Has(l[i], g)} |-> l[i][f]]]] : l \in StoredLists(k) }

\* -------------------------------------------------------------- identifiers
\* the next id taken from the length of the list
nextId_FromLength(list) == Len(list) + 1

\* Math.max(...list.map(r => r.id)) + 1, from 0 for an empty list
nextId(list) == (IF Len(list) > 0 THEN MaxOf(Ids(list)) ELSE 0) + 1

\* c.courseId?.match(/\d+/) ? parseInt(match[0]) : 0
sidNumber(sid) ==
    IF sid = Undef \/ sid = Null THEN 0
    ELSE LET match == matchDigits(sid) IN IF match = Null THEN 0 ELSE parseInt(match)

maxSid(sids) == IF Len(sids) > 0 THEN MaxOf([i \in 1..Len(sids) |-> sidNumber(sids[i])]) ELSE 0

COURSE == <<"C", "O", "U", "R", "S", "E">>
STAFF == <<"S", "T", "A", "F", "F">>

generateCourseId(courses) ==
    COURSE \o padStart(String(maxSid([i \in 1..Len(courses) |-> courses[i].courseId]) + 1), 3, "0")

generateTaskId(tasks) ==
    <<"T">> \o padStart(String(maxSid([i \in 1..Len(tasks) |-> tasks[i].taskId]) + 1), 3, "0")

\* ------------------------------------------------------------------ filters
\* the Staff filter with the query trimmed before it is matched
FilterStaff_TrimmedQuery(staffMembers, department, query) ==
    LET byDept == IF department # "All"
                  THEN SelectSeq(staffMembers, LAMBDA staff : staff.department = department)
                  ELSE staffMembers
    IN  IF trim(query) # <<>>
        THEN SelectSeq(byDept, LAMBDA staff :
                 \/ includes(toLowerCase(staff.name), toLowerCase(trim(query)))
                 \/ includes(toLowerCase(staff.email), toLowerCase(trim(query))))
        ELSE byDept

FilterStaff(staffMembers, department, query) ==
    LET byDept == IF department # "All"
                  THEN SelectSeq(staffMembers, LAMBDA staff : staff.department = department)
                  ELSE staffMembers
    IN  IF trim(query) # <<>>
        THEN SelectSeq(byDept, LAMBDA staff :
                 \/ includes(toLowerCase(staff.name), toLowerCase(query))
                 \/ includes(toLowerCase(staff.email), toLowerCase(query)))
        ELSE byDept

FilterCourses(courses, semester) ==
    IF semester # "All"
    THEN SelectSeq(courses, LAMBDA course : course.semester = semester)
    ELSE courses

FilterTasks(tasks) == tasks

\* -------------------------------------------------------------------- state
VARIABLES
    kind,                \* the page App renders: which module is the mounted one
    userRole,            \* prop userRole
    currentUserEmail,    \* prop currentUserEmail (StaffManagement)
    localStorage,        \* key -> item
    mounted,             \* the module is mounted
    crashed,             \* the last activation ended in an uncaught error
    epoch,               \* which mount of the module this is (closures belong to one)
    activeTab,
    collection,          \* staffMembers / courses / tasks
    filtered,            \* filteredStaff / filteredCourses / filteredTasks
    editing,             \* editingStaff / editingCourse / editingTask
    selected,            \* selectedStaff / selectedCourse / selectedTask
    popup,               \* the module's popup state
    formData,            \* the form's values (AddStaffForm's state in the Staff module)
    selectedDepartment,
    searchQuery,
    selectedSemester,
    isSubmitting,        \* AddStaffForm
    error,               \* AddStaffForm's inline error ("" for null)
    formPopup,           \* AddStaffForm's own popup state
    timers,              \* the setTimeout timers of the PopupMessage components rendered
    pending,             \* callbacks not yet run: submit timers and file reads, with their closures
    mutations,           \* writes of a new collection so far (bounds the exploration)
    waited,              \* handlers run since the pending callback was scheduled (bounds the exploration)
    assigned,            \* the ids the records of the collection have held so far (history)
    last                 \* the handler that ran last, its argument and its outcome (observation only)

vars == <<kind, userRole, currentUserEmail, localStorage, mounted, crashed, epoch, activeTab,
          collection, filtered, editing, selected, popup, formData, selectedDepartment,
          searchQuery, selectedSemester, isSubmitting, error, formPopup, timers, pending,
          mutations, waited, assigned, last>>

props == <<kind, userRole, currentUserEmail>>

isAdministrator == userRole = "Administrator"
isStaff == userRole = "Staff"

ViewTab(k) == CASE k = "Staff" -> "view-staff" [] k = "Course" -> "view-courses" [] k = "Task" -> "view-tasks"
AddTab(k) == CASE k = "Staff" -> "add-staff" [] k = "Course" -> "add-course" [] k = "Task" -> "add-task"
DetailsTab(k) == CASE k = "Staff" -> "staff-details" [] k = "Course" -> "course-details" [] k = "Task" -> "task-details"
Tabs(k) == {ViewTab(k), AddTab(k), DetailsTab(k)}

HiddenPopup == [show |-> FALSE, message |-> "", type |-> "success"]
Popup(message, type) == [show |-> TRUE, message |-> message, type |-> type]

Did(op, arg, res) == [op |-> op, arg |-> arg, res |-> res]
Idle == Did("", 0, "")     \* a handler no property needs to tell from the others

\* useState initial values of the forms; id 0 stands for "no id property"
DefaultStaffForm ==
    StaffRec(0, STAFF \o <<"0", "0", "1">>, <<>>, <<>>, "Computer Science", <<>>)
DefaultCourseForm(courseId, semester) == CourseRec(0, courseId, <<>>, <<>>, <<>>, semester)
DefaultTaskForm(taskId) == TaskRec(0, taskId, <<>>, <<>>)

InitialForm(k) ==
    CASE k = "Staff" -> DefaultStaffForm
      [] k = "Course" -> DefaultCourseForm(COURSE \o <<"0", "0", "1">>, "Semester 1")
      [] k = "Task" -> DefaultTaskForm(<<"T", "0", "0", "1">>)

\* the values useState gives a module that mounts
InitialMemory ==
    [activeTab |-> ViewTab(kind), collection |-> <<>>, filtered |-> <<>>, editing |-> NoRef,
     selected |-> NoRef, popup |-> HiddenPopup, formData |-> InitialForm(kind),
     selectedDepartment |-> "All", searchQuery |-> <<>>, selectedSemester |-> "All",
     isSubmitting |-> FALSE, error |-> "", formPopup |-> HiddenPopup]

Emails == {<<>>, <<"S", "@", "U">>, <<"x", "@", "u">>}

Init ==
    /\ kind \in Kinds
    /\ userRole \in {"Administrator", "Staff"}
    /\ currentUserEmail \in (IF kind = "Staff" /\ userRole = "Staff" THEN Emails ELSE {<<>>})
    /\ \E item \in {Absent, EmptyText, Garbage, NonArray} \cup StoredTexts(kind) :
           localStorage = [key \in Keys |-> IF key = Key(kind) THEN item ELSE Absent]
    /\ mounted = FALSE
    /\ crashed = FALSE
    /\ epoch = 0
    /\ activeTab = InitialMemory.activeTab
    /\ collection = <<>>
    /\ filtered = <<>>
    /\ editing = NoRef
    /\ selected = NoRef
    /\ popup = HiddenPopup
    /\ formData = InitialMemory.formData
    /\ selectedDepartment = "All"
    /\ searchQuery = <<>>
    /\ selectedSemester = "All"
    /\ isSubmitting = FALSE
    /\ error = ""
    /\ formPopup = HiddenPopup
    /\ timers = {}
    /\ pending = {}
    /\ mutations = 0
    /\ waited = 0
    /\ assigned = {}
    /\ last = Idle

\* ------------------------------------------------------------------ effects
\* currentUserProfile: the record whose email is currentUserEmail ignoring case,
\* else (Staff role) the first record, else null
\* the search for the caller's record with the emails compared as they are written
FindByEmail_CaseSensitive(staffMembers, email) ==
    LET hits == SelectSeq(staffMembers, LAMBDA staff : ~Falsy(email) /\ staff.email = email)
    IN  IF hits # <<>> THEN Ref(hits[1]) ELSE NoRef

FindByEmail(staffMembers, email) ==
    LET hits == SelectSeq(staffMembers, LAMBDA staff :
                    ~Falsy(email) /\ toLowerCase(staff.email) = toLowerCase(email))
    IN  IF hits # <<>> THEN Ref(hits[1]) ELSE NoRef

\* the caller's profile without the fallback to the first record
currentUserProfile_NoFallback(staffMembers) == FindByEmail(staffMembers, currentUserEmail)

currentUserProfile(staffMembers) ==
    LET found == FindByEmail(staffMembers, currentUserEmail)
    IN  IF found # NoRef THEN found
        ELSE IF isStaff /\ Len(staffMembers) > 0 THEN Ref(staffMembers[1]) ELSE NoRef

\* useEffect "Auto-load Staff Profile", run after a render in which its
\* dependencies (the collection's length among them) changed
AutoSelect(staffMembers, sel, lengthChanged) ==
    IF lengthChanged /\ isStaff /\ Len(staffMembers) > 0 /\ sel = NoRef
    THEN LET userProfile == FindByEmail(staffMembers, currentUserEmail)
         IN  IF userProfile # NoRef THEN userProfile ELSE Ref(staffMembers[1])
    ELSE sel

\* the list as the handlers set it (setFilteredStaff(updatedList)), with no filter effect after
Filter_AllRecords(list, department, query, semester) == list

\* useEffect "Filter ...", run after every render in which the collection or a criterion changed
Filter(list, department, query, semester) ==
    CASE kind = "Staff" -> FilterStaff(list, department, query)
      [] kind = "Course" -> FilterCourses(list, semester)
      [] kind = "Task" -> FilterTasks(list)

\* useEffect "Auto-generate Course ID" / "Auto-update Task ID": when the length of
\* the collection or the edit reference changed and nothing is in edit
AutoId(list, oldList, edit, oldEdit, fd) ==
    IF (Len(list) # Len(oldList) \/ edit # oldEdit) /\ edit = NoRef
    THEN CASE kind = "Course" -> [fd EXCEPT !.courseId = generateCourseId(list)]
           [] kind = "Task" -> [fd EXCEPT !.taskId = generateTaskId(list)]
           [] OTHER -> fd
    ELSE fd

\* AddStaffForm rendered on every tab of an Administrator
FormMountedAt_AnyTab(isMounted, tab) == isMounted /\ kind = "Staff" /\ isAdministrator

\* AddStaffForm is rendered by StaffManagement only on the add tab of an Administrator
FormMountedAt(isMounted, tab) == isMounted /\ kind = "Staff" /\ tab = "add-staff" /\ isAdministrator
FormMounted == FormMountedAt(mounted, activeTab)

\* AddStaffForm useEffect "Load Editing Staff Data"
LoadForm(edit) ==
    IF edit # NoRef
    THEN LET e == edit[1]
         IN  StaffRec(0,
                      IF Falsy(e.staffId) THEN STAFF \o padStart(String(e.id), 3, "0") ELSE e.staffId,
                      IF Falsy(e.name) THEN <<>> ELSE e.name,
                      IF Falsy(e.email) THEN <<>> ELSE e.email,
                      e.department,
                      IF Falsy(e.profilePicture) THEN <<>> ELSE e.profilePicture)
    ELSE DefaultStaffForm

\* the module's in-memory state as one value
Now ==
    [activeTab |-> activeTab, collection |-> collection, filtered |-> filtered, editing |-> editing,
     selected |-> selected, popup |-> popup, formData |-> formData,
     selectedDepartment |-> selectedDepartment, searchQuery |-> searchQuery,
     selectedSemester |-> selectedSemester, isSubmitting |-> isSubmitting, error |-> error,
     formPopup |-> formPopup]

\* PopupMessage: duration = 3000 ms, counted in ticks of 1500 ms
duration == 2

\* the timer the effect of a PopupMessage starts: which popup state it shows
\* (the module's or the form's), the notification it was started for, the mount
\* its onClose belongs to and the ticks left
Timer(owner, notification) ==
    [owner |-> owner, for |-> notification, epoch |-> IF mounted THEN epoch ELSE epoch + 1,
     left |-> duration]

\* the effect's cleanup missing: a timer once started stays
clearTimeout_Never(ts) == ts

\* the effect's cleanup, () => clearTimeout(timer): run before the effect runs
\* again (onClose is a new function in every render) and when the component unmounts
clearTimeout(ts) == {}

\* The render that follows a handler whose state updates give h, and the effects
\* that run after it: the filter, the Staff profile auto-selection, the
\* Course/Task id refresh, the mount, unmount and reload of AddStaffForm, and
\* the timer of each PopupMessage rendered (cancelled and started again).
Render(h) ==
    LET before == FormMounted
        after == FormMountedAt(TRUE, h.activeTab)
    IN  /\ activeTab' = h.activeTab
        /\ collection' = h.collection
        /\ filtered' = Filter(h.collection, h.selectedDepartment, h.searchQuery, h.selectedSemester)
        /\ editing' = h.editing
        /\ selected' = IF kind = "Staff"
                       THEN AutoSelect(h.collection, h.selected,
                                       ~mounted \/ Len(h.collection) # Len(collection))
                       ELSE h.selected
        /\ popup' = h.popup
        /\ formData' = IF kind = "Staff"
                       THEN IF ~after THEN DefaultStaffForm
                            ELSE IF ~before \/ h.editing # editing THEN LoadForm(h.editing)
                            ELSE h.formData
                       ELSE AutoId(h.collection, collection, h.editing, editing, h.formData)
        /\ selectedDepartment' = h.selectedDepartment
        /\ searchQuery' = h.searchQuery
        /\ selectedSemester' = h.selectedSemester
        /\ isSubmitting' = (before /\ after /\ h.isSubmitting)
        /\ error' = IF before /\ after THEN h.error ELSE ""
        /\ formPopup' = IF before /\ after THEN h.formPopup ELSE HiddenPopup
        /\ timers' = clearTimeout(timers)
                        \cup (IF h.popup.show THEN {Timer("module", h.popup)} ELSE {})
                        \cup (IF before /\ after /\ h.formPopup.show
                              THEN {Timer("form", h.formPopup)} ELSE {})

\* no in-memory state is left (the module is not mounted)
Forget ==
    /\ activeTab' = InitialMemory.activeTab
    /\ collection' = <<>>
    /\ filtered' = <<>>
    /\ editing' = NoRef
    /\ selected' = NoRef
    /\ popup' = HiddenPopup
    /\ formData' = InitialMemory.formData
    /\ selectedDepartment' = "All"
    /\ searchQuery' = <<>>
    /\ selectedSemester' = "All"
    /\ isSubmitting' = FALSE
    /\ error' = ""
    /\ formPopup' = HiddenPopup
    /\ timers' = clearTimeout(timers)

memory == <<activeTab, collection, filtered, editing, selected, popup, formData,
            selectedDepartment, searchQuery, selectedSemester, isSubmitting, error,
            formPopup, timers>>

\* the save left out
setItem_NotWritten(k, list) == UNCHANGED localStorage

\* saveStaffToStorage(list), saveCoursesToStorage(list), saveTasksToStorage(list)
setItem(k, list) == localStorage' = [localStorage EXCEPT ![Key(k)] = JSONstringify(list)]

\* ---------------------------------------------------------------- activation
\* useEffect "Load ... Data" of the module that mounts.  JSON.parse is not
\* guarded: a text that is not JSON throws out of the effect, and a JSON value
\* that is no array throws in the next render (staffMembers.find, courses.map);
\* with no error boundary React then unmounts the whole tree.
LoadData(k) ==
    /\ kind = k
    /\ ~mounted
    /\ epoch < MaxMounts
    /\ epoch' = epoch + 1
    /\ LET savedItem == localStorage[Key(k)]
       IN  IF Truthy(savedItem)
           THEN IF ParseThrows(savedItem) \/ ~savedItem.array
                THEN /\ mounted' = FALSE
                     /\ crashed' = TRUE
                     /\ Forget
                     /\ last' = Did("load", 0, "crash")
                     /\ UNCHANGED localStorage
                ELSE /\ mounted' = TRUE
                     /\ crashed' = FALSE
                     /\ Render([InitialMemory EXCEPT !.collection = JSONparse(k, savedItem)])
                     /\ last' = Did("load", 0, "loaded")
                     /\ UNCHANGED localStorage
           ELSE /\ mounted' = TRUE
                /\ crashed' = FALSE
                /\ Render([InitialMemory EXCEPT !.collection = Sample(k)])
                /\ setItem(k, Sample(k))
                /\ last' = Did("load", 0, "seeded")
    /\ UNCHANGED <<props, pending, mutations>>

loadStaffData == LoadData("Staff")
loadCoursesData == LoadData("Course")
loadTasksData == LoadData("Task")

\* App renders another page (or the page is left): the module unmounts and its
\* state is gone; timers and file reads already started are not cancelled.
Unmount ==
    /\ mounted
    /\ mounted' = FALSE
    /\ Forget
    /\ last' = Idle
    /\ UNCHANGED <<props, localStorage, crashed, epoch, pending, mutations>>

\* ------------------------------------------------------- inputs (bounded)
Queries == {<<>>, <<" ">>, <<"S">>, <<"s", " ">>}
FilterDepartments == {"All", "Computer Science", "Mathematics", "Physics"}

\* What a burst of handleInputChange(field, value) calls leaves in the form: a
\* draft gives the fields typed and their values.
ApplyDraft(fd, draft) == [f \in DOMAIN fd |-> IF f \in DOMAIN draft THEN draft[f] ELSE fd[f]]
Pictures == {<<"data:B">>}
\* the size limit taken for exclusive
FiveMB_Exclusive == 5 * 1024 * 1024 - 1

FiveMB == 5 * 1024 * 1024
Files == [type : {<<"image/", "png">>, <<"text/", "plain">>}, size : {5242880, 5242881}]

\* the rows the list shows: handlers are called with a record of the displayed list
Rows == {filtered[i] : i \in {j \in 1..Len(filtered) : j <= MaxRow \/ j > Len(filtered) - MaxRow}}

\* ------------------------------------------------------ shared UI handlers
\* onClose of the module's popup, called by the close button of its PopupMessage
PopupClose ==
    /\ mounted
    /\ popup.show
    /\ Render([Now EXCEPT !.popup = HiddenPopup])
    /\ last' = Idle
    /\ UNCHANGED <<props, localStorage, mounted, crashed, epoch, pending, mutations>>

\* 1500 ms pass: no timer has expired yet, and no 500 ms submit timer is pending
Tick ==
    /\ timers # {}
    /\ \A t \in timers : t.left > 0
    /\ \A p \in pending : p.cb # "submit"
    /\ timers' = {[t EXCEPT !.left = @ - 1] : t \in timers}
    /\ last' = Idle
    /\ UNCHANGED <<props, localStorage, mounted, crashed, epoch, pending, mutations,
                   activeTab, collection, filtered, editing, selected, popup, formData,
                   selectedDepartment, searchQuery, selectedSemester, isSubmitting, error,
                   formPopup>>

\* the callback of a PopupMessage timer that expired: onClose() of the render that
\* started it, which hides the popup state of its owner
PopupTimeout(t) ==
    /\ t \in timers
    /\ t.left = 0
    /\ IF mounted /\ t.epoch = epoch
       THEN /\ Render(IF t.owner = "module" THEN [Now EXCEPT !.popup = HiddenPopup]
                                            ELSE [Now EXCEPT !.formPopup = HiddenPopup])
            /\ last' = Did("timeout", t.for, "closed")
       ELSE /\ timers' = timers \ {t}
            /\ last' = Did("timeout", t.for, "unmounted")
            /\ UNCHANGED <<activeTab, collection, filtered, editing, selected, popup, formData,
                           selectedDepartment, searchQuery, selectedSemester, isSubmitting, error,
                           formPopup>>
    /\ UNCHANGED <<props, localStorage, mounted, crashed, epoch, pending, mutations>>

\* the tab buttons; the add tab's button is rendered for the Administrator only
SetActiveTab(tab) ==
    /\ mounted
    /\ tab \in Tabs(kind)
    /\ tab = AddTab(kind) => isAdministrator
    /\ tab # activeTab
    /\ Render([Now EXCEPT !.activeTab = tab])
    /\ last' = Idle
    /\ UNCHANGED <<props, localStorage, mounted, crashed, epoch, pending, mutations>>

\* ------------------------------------------------------- StaffManagement
departments ==
    {"All"} \cup (IF kind = "Staff" THEN {collection[i].department : i \in 1..Len(collection)} ELSE {})

setSelectedDepartment(dept) ==
    /\ mounted /\ kind = "Staff" /\ activeTab = "view-staff"
    /\ dept \in departments
    /\ dept # selectedDepartment
    /\ Render([Now EXCEPT !.selectedDepartment = dept])
    /\ last' = Idle
    /\ UNCHANGED <<props, localStorage, mounted, crashed, epoch, pending, mutations>>

setSearchQuery(query) ==
    /\ mounted /\ kind = "Staff" /\ activeTab = "view-staff"
    /\ query \in Queries
    /\ query # searchQuery
    /\ Render([Now EXCEPT !.searchQuery = query])
    /\ last' = Idle
    /\ UNCHANGED <<props, localStorage, mounted, crashed, epoch, pending, mutations>>

\* handleStaffAdded(newStaff) as the closure of one render runs it: on that
\* render's staffMembers
StaffAdded(staffMembers, newStaff) ==
    LET withId == IF newStaff.id = 0 THEN [newStaff EXCEPT !.id = nextId(staffMembers)] ELSE newStaff
    IN  Append(staffMembers, withId)

\* the update applied to the collection of the current render (a functional update)
StaffUpdated_OnCurrent(staffMembers, updatedStaff) ==
    [i \in 1..Len(collection) |->
        IF collection[i].id = updatedStaff.id THEN updatedStaff ELSE collection[i]]

\* handleStaffUpdated(updatedStaff), on the closure's staffMembers
StaffUpdated(staffMembers, updatedStaff) ==
    [i \in 1..Len(staffMembers) |->
        IF staffMembers[i].id = updatedStaff.id THEN updatedStaff ELSE staffMembers[i]]

\* the confirmation dialog taken to be answered yes whatever the user answers
windowConfirm_Always(answer) == TRUE

\* the confirmation dialog with its answer taken the wrong way round
windowConfirm_Negated(answer) == ~answer

\* window.confirm(...): blocks until the user answers, and returns the answer
windowConfirm(answer) == answer

\* the Detail reference cleared by every delete
ClearSelected_Always(sel, id) == NoRef

\* if (selectedStaff && selectedStaff.id === id) setSelectedStaff(null)
ClearSelected(sel, id) == IF sel # NoRef /\ sel[1].id = id THEN NoRef ELSE sel

\* the delete with the id taken for a position in the list
DeleteFrom_AtPosition(list, id) ==
    [k \in 1..Cardinality({i \in 1..Len(list) : i # id}) |-> list[IF k < id THEN k ELSE k + 1]]

\* staffMembers.filter(staff => staff.id !== id), and the same for courses and tasks
DeleteFrom(list, id) == SelectSeq(list, LAMBDA r : r.id # id)

handleDeleteStaff(id, confirm) ==
    /\ mounted /\ kind = "Staff"
    /\ id \in {r.id : r \in Rows}
    /\ IF ~isAdministrator
       THEN /\ Render([Now EXCEPT !.popup = Popup("You do not have permission to delete staff members.", "error")])
            /\ last' = Did("delete", id, "denied")
            /\ UNCHANGED <<localStorage, mutations>>
       ELSE IF windowConfirm(confirm)
       THEN /\ mutations < MaxMutations
            /\ mutations' = mutations + 1
            /\ LET updatedList == DeleteFrom(collection, id)
               IN  /\ Render([Now EXCEPT !.collection = updatedList,
                                         !.selected = ClearSelected(selected, id),
                                         !.popup = Popup("Record deleted", "delete")])
                   /\ setItem("Staff", updatedList)
            /\ last' = Did("delete", id, IF confirm THEN "ok" ELSE "declined")
       ELSE /\ last' = Did("delete", id, IF confirm THEN "ok" ELSE "declined")
            /\ UNCHANGED <<memory, localStorage, mutations>>
    /\ UNCHANGED <<props, mounted, crashed, epoch, pending>>

handleEditStaff(staff) ==
    /\ mounted /\ kind = "Staff"
    /\ staff \in Rows
    /\ IF ~isAdministrator
       THEN /\ Render([Now EXCEPT !.popup = Popup("You do not have permission to edit staff members.", "error")])
            /\ last' = Did("edit", staff.id, "denied")
       ELSE /\ Render([Now EXCEPT !.editing = Ref(staff), !.activeTab = "add-staff"])
            /\ last' = Idle
    /\ UNCHANGED <<props, localStorage, mounted, crashed, epoch, pending, mutations>>

handleViewStaff(staff) ==
    /\ mounted /\ kind = "Staff"
    /\ staff \in Rows
    /\ Render([Now EXCEPT !.selected = Ref(staff), !.activeTab = "staff-details"])
    /\ last' = Idle
    /\ UNCHANGED <<props, localStorage, mounted, crashed, epoch, pending, mutations>>

\* a callback that is pending, with what its closure holds (pending is a set: a
\* second callback with the same closure is not explored)
Callback(cb, snap, data, edit) == [cb |-> cb, epoch |-> epoch, snap |-> snap, data |-> data, edit |-> edit]

handleProfilePictureUpload(file) ==
    /\ mounted /\ kind = "Staff"
    /\ file \in Files
    /\ selected # NoRef
    /\ LET profile == currentUserProfile(collection)
       IN  IF isStaff /\ profile # NoRef /\ selected[1].id # profile[1].id
           THEN /\ Render([Now EXCEPT !.popup = Popup("You can only upload your own profile picture.", "error")])
                /\ last' = Did("upload", [id |-> selected[1].id, file |-> file], "denied")
                /\ UNCHANGED pending
           ELSE IF ~startsWith(file.type, <<"image/">>)
           THEN /\ Render([Now EXCEPT !.popup = Popup("Please select a valid image file.", "error")])
                /\ last' = Did("upload", [id |-> selected[1].id, file |-> file], "type")
                /\ UNCHANGED pending
           ELSE IF file.size > FiveMB
           THEN /\ Render([Now EXCEPT !.popup = Popup("Image size should be less than 5MB.", "error")])
                /\ last' = Did("upload", [id |-> selected[1].id, file |-> file], "size")
                /\ UNCHANGED pending
           ELSE /\ Cardinality({p \in pending : p.cb = "read"}) < MaxReads
                /\ Callback("read", collection, selected[1], NoRef) \notin pending
                /\ pending' = pending \cup {Callback("read", collection, selected[1], NoRef)}
                /\ last' = Did("upload", [id |-> selected[1].id, file |-> file], "reading")
                /\ UNCHANGED memory
    /\ UNCHANGED <<props, localStorage, mounted, crashed, epoch, mutations>>

\* reader.onloadend of an upload: the closure's selectedStaff and staffMembers
ReaderOnloadend(p, result) ==
    /\ p \in pending /\ p.cb = "read"
    /\ result \in Pictures
    /\ mutations < MaxMutations
    /\ mutations' = mutations + 1
    /\ pending' = pending \ {p}
    /\ LET updatedStaff == [p.data EXCEPT !.profilePicture = result]
           updatedList == StaffUpdated(p.snap, updatedStaff)
       IN  /\ IF mounted /\ p.epoch = epoch
              THEN Render([Now EXCEPT !.collection = updatedList, !.selected = Ref(updatedStaff),
                                      !.popup = Popup("Profile picture updated successfully!", "success")])
              ELSE UNCHANGED memory
           /\ setItem("Staff", updatedList)
           /\ last' = Did("onloadend", updatedStaff.id, "ok")
    /\ UNCHANGED <<props, mounted, crashed, epoch>>

\* ------------------------------------------------------------ AddStaffForm
StaffDrafts ==
    { [name |-> <<"N">>, email |-> <<"n", "@", "u">>, department |-> "Physics"],
      [name |-> <<"N">>, email |-> <<" ">>] }

FormInput(draft) ==
    /\ FormMounted
    /\ draft \in StaffDrafts
    /\ ApplyDraft(formData, draft) # formData
    /\ Render([Now EXCEPT !.formData = ApplyDraft(formData, draft)])
    /\ last' = Idle
    /\ UNCHANGED <<props, localStorage, mounted, crashed, epoch, pending, mutations>>

\* AddStaffForm.handleSubmit up to the start of its 500 ms timer
FormSubmit ==
    /\ FormMounted
    /\ IF trim(formData.name) = <<>> \/ trim(formData.email) = <<>>
       THEN /\ Render([Now EXCEPT !.error = "Please fill in all required fields.", !.isSubmitting = FALSE])
            /\ last' = Did("submit", 0, "invalid")
            /\ UNCHANGED pending
       ELSE /\ Cardinality({p \in pending : p.cb = "submit"}) < MaxPending
            /\ Callback("submit", collection, formData, editing) \notin pending
            /\ pending' = pending \cup {Callback("submit", collection, formData, editing)}
            /\ Render([Now EXCEPT !.error = "", !.isSubmitting = TRUE])
            /\ last' = Did("submit", 0, "waiting")
    /\ UNCHANGED <<props, localStorage, mounted, crashed, epoch, mutations>>

\* the timer's callback: onStaffUpdated(submitData) or onStaffAdded(submitData),
\* the handlers of the render in which the form was submitted; after
\* onStaffAdded the form sets its own popup and resets itself
SubmitTimeout(p) ==
    /\ p \in pending /\ p.cb = "submit"
    /\ mutations < MaxMutations
    /\ mutations' = mutations + 1
    /\ pending' = pending \ {p}
    /\ LET submitData == [p.data EXCEPT !.id = IF p.edit # NoRef THEN p.edit[1].id ELSE 0]
       IN  IF p.edit # NoRef
           THEN LET updatedList == StaffUpdated(p.snap, submitData)
                IN  /\ IF mounted /\ p.epoch = epoch
                       THEN Render([Now EXCEPT !.collection = updatedList, !.editing = NoRef,
                                               !.activeTab = "view-staff",
                                               !.popup = Popup("Staff record updated", "success")])
                       ELSE UNCHANGED memory
                    /\ setItem("Staff", updatedList)
                    /\ last' = Did("update", submitData.id, "ok")
           ELSE LET updatedStaff == StaffAdded(p.snap, submitData)
                IN  /\ IF mounted /\ p.epoch = epoch
                       THEN Render([Now EXCEPT !.collection = updatedStaff,
                                               !.activeTab = "view-staff",
                                               !.popup = Popup("Staff member added successfully!", "success"),
                                               !.formPopup = Popup("Staff member added successfully!", "success")])
                       ELSE UNCHANGED memory
                    /\ setItem("Staff", updatedStaff)
                    /\ last' = Did("create", updatedStaff[Len(updatedStaff)].id, "ok")
    /\ UNCHANGED <<props, mounted, crashed, epoch>>

\* AddStaffForm.handleCancel: resetForm, then onStaffAdded(null, 'cancel')
FormCancel ==
    /\ FormMounted
    /\ Render([Now EXCEPT !.formData = DefaultStaffForm, !.error = "", !.editing = NoRef])
    /\ last' = Did("cancel", 0, "ok")
    /\ UNCHANGED <<props, localStorage, mounted, crashed, epoch, pending, mutations>>

\* ------------------------------------------------------ CourseManagement
semesters == {"All", "Semester 1", "Semester 2"}

setSelectedSemester(sem) ==
    /\ mounted /\ kind = "Course" /\ activeTab = "view-courses"
    /\ sem \in semesters
    /\ sem # selectedSemester
    /\ Render([Now EXCEPT !.selectedSemester = sem])
    /\ last' = Idle
    /\ UNCHANGED <<props, localStorage, mounted, crashed, epoch, pending, mutations>>

CourseDrafts ==
    { [courseCode |-> <<"N">>, courseName |-> <<"N">>, requiredQualification |-> <<"q">>, semester |-> "Semester 2"],
      [courseCode |-> <<"N">>, courseName |-> <<"N">>, requiredQualification |-> <<" ">>, semester |-> "Semester 2"] }

handleCourseInputChange(draft) ==
    /\ mounted /\ kind = "Course"
    /\ draft \in CourseDrafts
    /\ ApplyDraft(formData, draft) # formData
    /\ Render([Now EXCEPT !.formData = ApplyDraft(formData, draft)])
    /\ last' = Idle
    /\ UNCHANGED <<props, localStorage, mounted, crashed, epoch, pending, mutations>>

\* the validation of the course form without trim()
CourseInvalid_Untrimmed(fd) ==
    fd.courseCode = <<>> \/ fd.courseName = <<>> \/ fd.requiredQualification = <<>>

CourseInvalid(fd) ==
    trim(fd.courseCode) = <<>> \/ trim(fd.courseName) = <<>> \/ trim(fd.requiredQualification) = <<>>

\* the record handleCourseAdded appends
NewCourse(courses, fd) ==
    [fd EXCEPT !.id = nextId(courses),
               !.courseId = IF Falsy(fd.courseId) THEN generateCourseId(courses) ELSE fd.courseId]

\* { ...course, ...formData } for the record in edit
CourseUpdated(courses, editId, fd) ==
    [i \in 1..Len(courses) |->
        IF courses[i].id = editId THEN [fd EXCEPT !.id = courses[i].id] ELSE courses[i]]

handleCourseAdded ==
    IF CourseInvalid(formData)
    THEN /\ Render([Now EXCEPT !.popup = Popup("Please fill in all required fields.", "error")])
         /\ last' = Did("create", 0, "invalid")
         /\ UNCHANGED <<localStorage, mutations>>
    ELSE /\ mutations < MaxMutations
         /\ mutations' = mutations + 1
         /\ LET newCourse == NewCourse(collection, formData)
                updatedCourses == Append(collection, newCourse)
            IN  /\ Render([Now EXCEPT !.collection = updatedCourses,
                                      !.activeTab = "view-courses",
                                      !.formData = DefaultCourseForm(generateCourseId(collection), "Semester 1"),
                                      !.popup = Popup("Course added successfully!", "success")])
                /\ setItem("Course", updatedCourses)
                /\ last' = Did("create", newCourse.id, "ok")

handleCourseUpdated ==
    IF CourseInvalid(formData)
    THEN /\ Render([Now EXCEPT !.popup = Popup("Please fill in all required fields.", "error")])
         /\ last' = Did("update", editing[1].id, "invalid")
         /\ UNCHANGED <<localStorage, mutations>>
    ELSE /\ mutations < MaxMutations
         /\ mutations' = mutations + 1
         /\ LET updatedList == CourseUpdated(collection, editing[1].id, formData)
            IN  /\ Render([Now EXCEPT !.collection = updatedList,
                                      !.editing = NoRef,
                                      !.activeTab = "view-courses",
                                      !.formData = DefaultCourseForm(generateCourseId(collection), "Semester 1"),
                                      !.popup = Popup("Course updated successfully!", "success")])
                /\ setItem("Course", updatedList)
                /\ last' = Did("update", editing[1].id, "ok")

\* handleSubmit of the course form
handleCourseSubmit ==
    /\ mounted /\ kind = "Course"
    /\ IF editing # NoRef THEN handleCourseUpdated ELSE handleCourseAdded
    /\ UNCHANGED <<props, mounted, crashed, epoch, pending>>

handleDeleteCourse(id, confirm) ==
    /\ mounted /\ kind = "Course"
    /\ id \in {r.id : r \in Rows}
    /\ IF ~isAdministrator
       THEN /\ Render([Now EXCEPT !.popup = Popup("You do not have permission to delete courses.", "error")])
            /\ last' = Did("delete", id, "denied")
            /\ UNCHANGED <<localStorage, mutations>>
       ELSE IF windowConfirm(confirm)
       THEN /\ mutations < MaxMutations
            /\ mutations' = mutations + 1
            /\ LET updatedList == DeleteFrom(collection, id)
               IN  /\ Render([Now EXCEPT !.collection = updatedList,
                                         !.selected = ClearSelected(selected, id),
                                         !.popup = Popup("Course deleted successfully!", "delete")])
                   /\ setItem("Course", updatedList)
            /\ last' = Did("delete", id, IF confirm THEN "ok" ELSE "declined")
       ELSE /\ last' = Did("delete", id, IF confirm THEN "ok" ELSE "declined")
            /\ UNCHANGED <<memory, localStorage, mutations>>
    /\ UNCHANGED <<props, mounted, crashed, epoch, pending>>

\* the form values handleEditCourse loads: course.courseId || course.courseCode || generateCourseId()
CourseFormOf(courses, course) ==
    CourseRec(0,
              IF ~Falsy(course.courseId) THEN course.courseId
              ELSE IF ~Falsy(course.courseCode) THEN course.courseCode
              ELSE generateCourseId(courses),
              IF Falsy(course.courseCode) THEN <<>> ELSE course.courseCode,
              IF Falsy(course.courseName) THEN <<>> ELSE course.courseName,
              IF Falsy(course.requiredQualification) THEN <<>> ELSE course.requiredQualification,
              course.semester)

handleEditCourse(course) ==
    /\ mounted /\ kind = "Course"
    /\ course \in Rows
    /\ IF ~isAdministrator
       THEN /\ Render([Now EXCEPT !.popup = Popup("You do not have permission to edit courses.", "error")])
            /\ last' = Did("edit", course.id, "denied")
       ELSE /\ Render([Now EXCEPT !.editing = Ref(course),
                                  !.formData = CourseFormOf(collection, course),
                                  !.activeTab = "add-course"])
            /\ last' = Idle
    /\ UNCHANGED <<props, localStorage, mounted, crashed, epoch, pending, mutations>>

handleCourseCancel ==
    /\ mounted /\ kind = "Course"
    /\ Render([Now EXCEPT !.editing = NoRef,
                          !.formData = DefaultCourseForm(generateCourseId(collection), "Semester 2"),
                          !.activeTab = "view-courses"])
    /\ last' = Did("cancel", 0, "ok")
    /\ UNCHANGED <<props, localStorage, mounted, crashed, epoch, pending, mutations>>

handleViewCourse(course) ==
    /\ mounted /\ kind = "Course"
    /\ course \in Rows
    /\ Render([Now EXCEPT !.selected = Ref(course), !.activeTab = "course-details"])
    /\ last' = Idle
    /\ UNCHANGED <<props, localStorage, mounted, crashed, epoch, pending, mutations>>

\* -------------------------------------------------------- TaskManagement
TaskDrafts ==
    { [taskName |-> <<"N">>, description |-> <<"d">>],
      [taskName |-> <<" ">>, description |-> <<"d">>] }

handleTaskInputChange(draft) ==
    /\ mounted /\ kind = "Task"
    /\ draft \in TaskDrafts
    /\ ApplyDraft(formData, draft) # formData
    /\ Render([Now EXCEPT !.formData = ApplyDraft(formData, draft)])
    /\ last' = Idle
    /\ UNCHANGED <<props, localStorage, mounted, crashed, epoch, pending, mutations>>

TaskInvalid(fd) == trim(fd.taskName) = <<>> \/ trim(fd.description) = <<>>

\* the record handleTaskAdded appends
NewTask(tasks, fd) ==
    [fd EXCEPT !.id = nextId(tasks),
               !.taskId = IF Falsy(fd.taskId) THEN generateTaskId(tasks) ELSE fd.taskId]

\* { ...task, ...formData } for the record in edit
TaskUpdated(tasks, editId, fd) ==
    [i \in 1..Len(tasks) |->
        IF tasks[i].id = editId THEN [fd EXCEPT !.id = tasks[i].id] ELSE tasks[i]]

handleTaskAdded ==
    IF TaskInvalid(formData)
    THEN /\ Render([Now EXCEPT !.popup = Popup("Please fill in all required fields.", "error")])
         /\ last' = Did("create", 0, "invalid")
         /\ UNCHANGED <<localStorage, mutations>>
    ELSE /\ mutations < MaxMutations
         /\ mutations' = mutations + 1
         /\ LET newTask == NewTask(collection, formData)
                updatedTasks == Append(collection, newTask)
            IN  /\ Render([Now EXCEPT !.collection = updatedTasks,
                                      !.activeTab = "view-tasks",
                                      !.formData = DefaultTaskForm(generateTaskId(collection)),
                                      !.popup = Popup("Task added successfully!", "success")])
                /\ setItem("Task", updatedTasks)
                /\ last' = Did("create", newTask.id, "ok")

handleTaskUpdated ==
    IF TaskInvalid(formData)
    THEN /\ Render([Now EXCEPT !.popup = Popup("Please fill in all required fields.", "error")])
         /\ last' = Did("update", editing[1].id, "invalid")
         /\ UNCHANGED <<localStorage, mutations>>
    ELSE /\ mutations < MaxMutations
         /\ mutations' = mutations + 1
         /\ LET updatedList == TaskUpdated(collection, editing[1].id, formData)
            IN  /\ Render([Now EXCEPT !.collection = updatedList,
                                      !.editing = NoRef,
                                      !.activeTab = "view-tasks",
                                      !.formData = DefaultTaskForm(generateTaskId(collection)),
                                      !.popup = Popup("Task updated successfully!", "success")])
                /\ setItem("Task", updatedList)
                /\ last' = Did("update", editing[1].id, "ok")

\* handleSubmit of the task form
handleTaskSubmit ==
    /\ mounted /\ kind = "Task"
    /\ IF editing # NoRef THEN handleTaskUpdated ELSE handleTaskAdded
    /\ UNCHANGED <<props, mounted, crashed, epoch, pending>>

handleDeleteTask(id, confirm) ==
    /\ mounted /\ kind = "Task"
    /\ id \in {r.id : r \in Rows}
    /\ IF ~isAdministrator
       THEN /\ Render([Now EXCEPT !.popup = Popup("You do not have permission to delete tasks.", "error")])
            /\ last' = Did("delete", id, "denied")
            /\ UNCHANGED <<localStorage, mutations>>
       ELSE IF windowConfirm(confirm)
       THEN /\ mutations < MaxMutations
            /\ mutations' = mutations + 1
            /\ LET updatedList == DeleteFrom(collection, id)
               IN  /\ Render([Now EXCEPT !.collection = updatedList,
                                         !.selected = ClearSelected(selected, id),
                                         !.popup = Popup("Task deleted successfully!", "delete")])
                   /\ setItem("Task", updatedList)
            /\ last' = Did("delete", id, IF confirm THEN "ok" ELSE "declined")
       ELSE /\ last' = Did("delete", id, IF confirm THEN "ok" ELSE "declined")
            /\ UNCHANGED <<memory, localStorage, mutations>>
    /\ UNCHANGED <<props, mounted, crashed, epoch, pending>>

\* the form values handleEditTask loads: task.taskId || generateTaskId()
TaskFormOf(tasks, task) ==
    TaskRec(0,
            IF ~Falsy(task.taskId) THEN task.taskId ELSE generateTaskId(tasks),
            IF Falsy(task.taskName) THEN <<>> ELSE task.taskName,
            IF Falsy(task.description) THEN <<>> ELSE task.description)

handleEditTask(task) ==
    /\ mounted /\ kind = "Task"
    /\ task \in Rows
    /\ IF ~isAdministrator
       THEN /\ Render([Now EXCEPT !.popup = Popup("You do not have permission to edit tasks.", "error")])
            /\ last' = Did("edit", task.id, "denied")
       ELSE /\ Render([Now EXCEPT !.editing = Ref(task),
                                  !.formData = TaskFormOf(collection, task),
                                  !.activeTab = "add-task"])
            /\ last' = Idle
    /\ UNCHANGED <<props, localStorage, mounted, crashed, epoch, pending, mutations>>

handleTaskCancel ==
    /\ mounted /\ kind = "Task"
    /\ Render([Now EXCEPT !.editing = NoRef,
                          !.formData = DefaultTaskForm(generateTaskId(collection)),
                          !.activeTab = "view-tasks"])
    /\ last' = Did("cancel", 0, "ok")
    /\ UNCHANGED <<props, localStorage, mounted, crashed, epoch, pending, mutations>>

handleViewTask(task) ==
    /\ mounted /\ kind = "Task"
    /\ task \in Rows
    /\ Render([Now EXCEPT !.selected = Ref(task), !.activeTab = "task-details"])
    /\ last' = Idle
    /\ UNCHANGED <<props, localStorage, mounted, crashed, epoch, pending, mutations>>

\* --------------------------------------------------------------------- Next
\* What every step adds to the bookkeeping: at most MaxWait handlers run while
\* callbacks are pending, and the ids in use are added to the history.
Wait ==
    LET ran == pending' \subseteq pending /\ pending' # pending
    IN  /\ (pending # {} /\ ~ran) => waited < MaxWait
        /\ waited' = IF pending' = {} \/ pending = {} THEN 0
                      ELSE IF ran THEN waited
                      ELSE waited + 1
    /\ assigned' = assigned \cup {collection'[i].id : i \in 1..Len(collection')}

\* The three modules' lists and forms.
Next ==
    \/ loadStaffData /\ Wait
    \/ loadCoursesData /\ Wait
    \/ loadTasksData /\ Wait
    \/ PopupClose /\ Wait
    \/ (\E tab \in Tabs(kind) : SetActiveTab(tab)) /\ Wait
    \/ (\E r \in Rows, confirm \in BOOLEAN : handleDeleteStaff(r.id, confirm)) /\ Wait
    \/ (\E r \in Rows : handleEditStaff(r)) /\ Wait
    \/ (\E r \in Rows : handleViewStaff(r)) /\ Wait
    \/ (\E draft \in StaffDrafts : FormInput(draft)) /\ Wait
    \/ FormSubmit /\ Wait
    \/ (\E p \in pending : SubmitTimeout(p)) /\ Wait
    \/ FormCancel /\ Wait
    \/ (\E draft \in CourseDrafts : handleCourseInputChange(draft)) /\ Wait
    \/ handleCourseSubmit /\ Wait
    \/ (\E r \in Rows, confirm \in BOOLEAN : handleDeleteCourse(r.id, confirm)) /\ Wait
    \/ (\E r \in Rows : handleEditCourse(r)) /\ Wait
    \/ handleCourseCancel /\ Wait
    \/ (\E r \in Rows : handleViewCourse(r)) /\ Wait
    \/ (\E draft \in TaskDrafts : handleTaskInputChange(draft)) /\ Wait
    \/ handleTaskSubmit /\ Wait
    \/ (\E r \in Rows, confirm \in BOOLEAN : handleDeleteTask(r.id, confirm)) /\ Wait
    \/ (\E r \in Rows : handleEditTask(r)) /\ Wait
    \/ handleTaskCancel /\ Wait
    \/ (\E r \in Rows : handleViewTask(r)) /\ Wait

Spec == Init /\ [][Next]_vars

\* The list of each module: its filters, the Detail view and the delete.
ListNext ==
    \/ loadStaffData /\ Wait
    \/ loadCoursesData /\ Wait
    \/ loadTasksData /\ Wait
    \/ Unmount /\ Wait
    \/ PopupClose /\ Wait
    \/ (\E dept \in FilterDepartments : setSelectedDepartment(dept)) /\ Wait
    \/ (\E query \in Queries : setSearchQuery(query)) /\ Wait
    \/ (\E sem \in semesters : setSelectedSemester(sem)) /\ Wait
    \/ (\E r \in Rows : handleViewStaff(r)) /\ Wait
    \/ (\E r \in Rows : handleViewCourse(r)) /\ Wait
    \/ (\E r \in Rows : handleViewTask(r)) /\ Wait
    \/ (\E r \in Rows, confirm \in BOOLEAN : handleDeleteStaff(r.id, confirm)) /\ Wait
    \/ (\E r \in Rows, confirm \in BOOLEAN : handleDeleteCourse(r.id, confirm)) /\ Wait
    \/ (\E r \in Rows, confirm \in BOOLEAN : handleDeleteTask(r.id, confirm)) /\ Wait

ListSpec == Init /\ [][ListNext]_vars

\* The form of each module: its inputs, the submit with its timer, edit and cancel.
FormNext ==
    \/ loadStaffData /\ Wait
    \/ loadCoursesData /\ Wait
    \/ loadTasksData /\ Wait
    \/ SetActiveTab(AddTab(kind)) /\ Wait
    \/ (\E r \in Rows : handleEditStaff(r)) /\ Wait
    \/ (\E draft \in StaffDrafts : FormInput(draft)) /\ Wait
    \/ FormSubmit /\ Wait
    \/ (\E p \in pending : SubmitTimeout(p)) /\ Wait
    \/ FormCancel /\ Wait
    \/ (\E r \in Rows : handleEditCourse(r)) /\ Wait
    \/ (\E draft \in CourseDrafts : handleCourseInputChange(draft)) /\ Wait
    \/ handleCourseSubmit /\ Wait
    \/ handleCourseCancel /\ Wait
    \/ (\E r \in Rows : handleEditTask(r)) /\ Wait
    \/ (\E draft \in TaskDrafts : handleTaskInputChange(draft)) /\ Wait
    \/ handleTaskSubmit /\ Wait
    \/ handleTaskCancel /\ Wait

FormSpec == Init /\ [][FormNext]_vars

\* The Detail view of the Staff module and the upload of a profile picture.
UploadNext ==
    \/ loadStaffData /\ Wait
    \/ Unmount /\ Wait
    \/ PopupClose /\ Wait
    \/ (\E r \in Rows : handleViewStaff(r)) /\ Wait
    \/ (\E file \in Files : handleProfilePictureUpload(file)) /\ Wait
    \/ (\E p \in pending, result \in Pictures : ReaderOnloadend(p, result)) /\ Wait

UploadSpec == Init /\ [][UploadNext]_vars

\* The Detail view of the Staff module next to its form: a record is opened in
\* Detail, edited in the form, and given a profile picture.
DetailNext ==
    \/ loadStaffData /\ Wait
    \/ SetActiveTab(DetailsTab(kind)) /\ Wait
    \/ (\E r \in Rows : handleViewStaff(r)) /\ Wait
    \/ (\E r \in Rows : handleEditStaff(r)) /\ Wait
    \/ (\E draft \in StaffDrafts : FormInput(draft)) /\ Wait
    \/ FormSubmit /\ Wait
    \/ (\E p \in pending : SubmitTimeout(p)) /\ Wait
    \/ (\E file \in Files : handleProfilePictureUpload(file)) /\ Wait
    \/ (\E p \in pending, result \in Pictures : ReaderOnloadend(p, result)) /\ Wait

DetailSpec == Init /\ [][DetailNext]_vars

\* The notification of each module and the timer of its PopupMessage: handlers
\* that show one, handlers that only cause a render, and the passing of time.
TimerNext ==
    \/ loadStaffData /\ Wait
    \/ loadCoursesData /\ Wait
    \/ loadTasksData /\ Wait
    \/ Unmount /\ Wait
    \/ PopupClose /\ Wait
    \/ (\E query \in {<<>>, <<"S">>} : setSearchQuery(query)) /\ Wait
    \/ (\E sem \in semesters : setSelectedSemester(sem)) /\ Wait
    \/ (\E r \in Rows, confirm \in BOOLEAN : handleDeleteStaff(r.id, confirm)) /\ Wait
    \/ (\E r \in Rows, confirm \in BOOLEAN : handleDeleteCourse(r.id, confirm)) /\ Wait
    \/ (\E r \in Rows, confirm \in BOOLEAN : handleDeleteTask(r.id, confirm)) /\ Wait
    \/ (\E r \in Rows : handleEditStaff(r)) /\ Wait
    \/ (\E r \in Rows : handleEditCourse(r)) /\ Wait
    \/ (\E r \in Rows : handleEditTask(r)) /\ Wait
    \/ Tick /\ Wait
    \/ (\E t \in timers : PopupTimeout(t)) /\ Wait

TimerSpec == Init /\ [][TimerNext]_vars

\* Time passes, and a timer that has expired runs its callback unless it is
\* cancelled first.
TimerFairSpec ==
    /\ TimerSpec
    /\ WF_vars(Tick /\ Wait)
    /\ SF_vars(\E t \in timers : PopupTimeout(t) /\ Wait)

\* The list of each module under a criterion while the collection changes: one
\* value of each criterion, and the create, update, delete and upload handlers
\* (the upload is the one of the caller's own record, selected at activation;
\* the updates are the ones of the Course and Task forms).
ViewNext ==
    \/ loadStaffData /\ Wait
    \/ loadCoursesData /\ Wait
    \/ loadTasksData /\ Wait
    \/ setSelectedDepartment("Mathematics") /\ Wait
    \/ setSearchQuery(<<"S">>) /\ Wait
    \/ setSelectedSemester("Semester 1") /\ Wait
    \/ SetActiveTab(AddTab(kind)) /\ Wait
    \/ (\E r \in Rows : handleDeleteStaff(r.id, TRUE)) /\ Wait
    \/ FormInput([name |-> <<"N">>, email |-> <<"n", "@", "u">>, department |-> "Physics"]) /\ Wait
    \/ FormSubmit /\ Wait
    \/ (\E p \in pending : SubmitTimeout(p)) /\ Wait
    \/ handleProfilePictureUpload([type |-> <<"image/", "png">>, size |-> FiveMB]) /\ Wait
    \/ (\E p \in pending, result \in Pictures : ReaderOnloadend(p, result)) /\ Wait
    \/ (\E draft \in CourseDrafts : handleCourseInputChange(draft)) /\ Wait
    \/ handleCourseSubmit /\ Wait
    \/ (\E r \in Rows : handleDeleteCourse(r.id, TRUE)) /\ Wait
    \/ (\E r \in Rows : handleEditCourse(r)) /\ Wait
    \/ (\E draft \in TaskDrafts : handleTaskInputChange(draft)) /\ Wait
    \/ handleTaskSubmit /\ Wait
    \/ (\E r \in Rows : handleDeleteTask(r.id, TRUE)) /\ Wait
    \/ (\E r \in Rows : handleEditTask(r)) /\ Wait

ViewSpec == Init /\ [][ViewNext]_vars

\* The handlers and callbacks that write a collection, in all their orders: the
\* creates (the Staff one from its submit timer), the updates of the Course and
\* Task forms, the deletes, and the upload of an image to a record opened in
\* Detail with the completion of its read.
IdNext ==
    \/ loadStaffData /\ Wait
    \/ loadCoursesData /\ Wait
    \/ loadTasksData /\ Wait
    \/ SetActiveTab(AddTab(kind)) /\ Wait
    \/ (\E r \in Rows : handleViewStaff(r)) /\ Wait
    \/ (\E r \in Rows : handleDeleteStaff(r.id, TRUE)) /\ Wait
    \/ FormInput([name |-> <<"N">>, email |-> <<"n", "@", "u">>, department |-> "Physics"]) /\ Wait
    \/ FormSubmit /\ Wait
    \/ (\E p \in pending : SubmitTimeout(p)) /\ Wait
    \/ handleProfilePictureUpload([type |-> <<"image/", "png">>, size |-> FiveMB]) /\ Wait
    \/ (\E p \in pending, result \in Pictures : ReaderOnloadend(p, result)) /\ Wait
    \/ (\E draft \in CourseDrafts : handleCourseInputChange(draft)) /\ Wait
    \/ handleCourseSubmit /\ Wait
    \/ (\E r \in Rows : handleDeleteCourse(r.id, TRUE)) /\ Wait
    \/ (\E r \in Rows : handleEditCourse(r)) /\ Wait
    \/ (\E draft \in TaskDrafts : handleTaskInputChange(draft)) /\ Wait
    \/ handleTaskSubmit /\ Wait
    \/ (\E r \in Rows : handleDeleteTask(r.id, TRUE)) /\ Wait
    \/ (\E r \in Rows : handleEditTask(r)) /\ Wait

IdSpec == Init /\ [][IdNext]_vars

\* The page left and entered again while the Staff form's submit timer runs.
MountNext ==
    \/ loadStaffData /\ Wait
    \/ loadCoursesData /\ Wait
    \/ loadTasksData /\ Wait
    \/ Unmount /\ Wait
    \/ SetActiveTab(AddTab(kind)) /\ Wait
    \/ (\E r \in Rows : handleEditStaff(r)) /\ Wait
    \/ (\E draft \in StaffDrafts : FormInput(draft)) /\ Wait
    \/ FormSubmit /\ Wait
    \/ (\E p \in pending : SubmitTimeout(p)) /\ Wait

MountSpec == Init /\ [][MountNext]_vars

\* ================================================================== properties
\* what the properties say of a collection, in their own words
IdsOf(list) == {list[i].id : i \in 1..Len(list)}
Greatest(ids) == CHOOSE m \in ids : \A n \in ids : n <= m
Newest(list) == list[Len(list)]
Created == mounted /\ last'.op = "create" /\ last'.res = "ok"
Updated == mounted /\ last'.op = "update" /\ last'.res = "ok"
Deleted == mounted /\ last'.op = "delete" /\ last'.res = "ok"
Stored == localStorage[Key(kind)]

\* the item is the text of list: an array of as many objects, the i-th with the
\* properties list[i] has a value for, and with those values
Holds(item, list) ==
    /\ item.t = "json" /\ item.array
    /\ Len(item.v) = Len(list)
    /\ \A i \in 1..Len(list) :
           /\ DOMAIN item.v[i] \subseteq DOMAIN list[i]
           /\ \A f \in DOMAIN list[i] :
                  IF f \in DOMAIN item.v[i] THEN item.v[i][f] = list[i][f] ELSE ~Has(list[i], f)

\* C1: while the role is Staff, no run of a create, update or delete handler
\* changes the collection in memory or the value stored under the module's key.
C1_StaffNeverMutates ==
    [][(isStaff /\ last'.op \in {"create", "update", "delete"})
        => (collection' = collection /\ localStorage' = localStorage)]_vars

\* C2: a valid create leaves the collection one record longer, the new record
\* last and every earlier record where it was, and the new record's id is the
\* greatest id held before plus one (1 in an empty collection).
C2_CreateAppendsOne ==
    [][Created
        => /\ Len(collection') = Len(collection) + 1
           /\ SubSeq(collection', 1, Len(collection)) = collection
           /\ Newest(collection').id = (IF collection = <<>> THEN 1 ELSE Greatest(IdsOf(collection)) + 1)]_vars

\* C3: the id a create gives its record is an id no record of the collection
\* has held before, also after the record with the greatest id was deleted.
C3_IdNeverReassigned ==
    [][(Created /\ collection' # <<>>) => Newest(collection').id \notin assigned]_vars

\* C4: a delete of id x that the Administrator confirmed leaves every record
\* whose id is not x, with the fields and in the order it had, and nothing
\* else; the value stored under the module's key is that collection.
C4_DeleteRemovesExactly ==
    [][(isAdministrator /\ Deleted)
        => LET x == last'.arg
               kept == {i \in 1..Len(collection) : collection[i].id # x}
           IN  /\ x \in IdsOf(collection)
               /\ x \notin IdsOf(collection')
               /\ Len(collection') = Cardinality(kept)
               /\ \A i \in kept : collection'[Cardinality({j \in kept : j <= i})] = collection[i]
               /\ Holds(localStorage'[Key(kind)], collection')]_vars

\* a delete has just removed one of several records, and the store agrees
C4_Witness ==
    /\ mounted /\ isAdministrator
    /\ last.op = "delete" /\ last.res = "ok"
    /\ Len(collection) >= 2
    /\ last.arg \notin IdsOf(collection)
    /\ Holds(Stored, collection)

\* C5: an update by the Administrator that reports success leaves the
\* collection as long as it was, exactly one record with the id updated, every
\* record with another id as it was, the store holding the new collection, the
\* list tab active and a notification of kind success shown.
C5_UpdateInPlace ==
    [][(isAdministrator /\ Updated)
        => LET x == last'.arg
           IN  /\ Len(collection') = Len(collection)
               /\ Cardinality({i \in 1..Len(collection') : collection'[i].id = x}) = 1
               /\ \A i \in 1..Len(collection) : collection[i].id # x => collection'[i] = collection[i]
               /\ \A i \in 1..Len(collection) : collection[i].id = x => collection'[i].id = x
               /\ Holds(localStorage'[Key(kind)], collection')
               /\ activeTab' = ViewTab(kind)
               /\ popup'.show /\ popup'.type = "success"]_vars

\* C6: with the Staff role, a create, an update, a delete or an edit ends with
\* a notification of kind error shown and with the collection, the store, the
\* active tab, the edit reference and the Detail reference as they were.
C6_StaffAttemptDenied ==
    [][(isStaff /\ mounted /\ last'.op \in {"create", "update", "delete", "edit"})
        => /\ popup'.show /\ popup'.type = "error"
           /\ UNCHANGED <<collection, localStorage, activeTab, editing, selected>>]_vars

\* what the properties say of texts, in their own words
Blank(text) == \A i \in 1..Len(text) : text[i] = " "
Within(part, text) ==
    \E k \in 0..(Len(text) - Len(part)) : SubSeq(text, k + 1, k + Len(part)) = part

\* the predicates a record of the list has to satisfy
Shown(r) ==
    CASE kind = "Staff" ->
            /\ selectedDepartment = "All" \/ r.department = selectedDepartment
            /\ \/ Blank(searchQuery)
               \/ Within(toLowerCase(searchQuery), toLowerCase(r.name))
               \/ Within(toLowerCase(searchQuery), toLowerCase(r.email))
      [] kind = "Course" -> selectedSemester = "All" \/ r.semester = selectedSemester
      [] OTHER -> TRUE

\* C7: the displayed list holds exactly the records of the collection that
\* satisfy every active predicate, in the collection's order (Staff: the
\* department is 'All' or the record's, and the query is blank or, lower-cased,
\* part of the lower-cased name or email; Course: the semester is 'All' or the
\* record's); with 'All' and no query it is the whole collection.
C7_FilterSemantics ==
    mounted =>
        LET shown == {i \in 1..Len(collection) : Shown(collection[i])}
        IN  /\ Len(filtered) = Cardinality(shown)
            /\ \A i \in shown : filtered[Cardinality({j \in shown : j <= i})] = collection[i]
            /\ (selectedDepartment = "All" /\ searchQuery = <<>> /\ selectedSemester = "All")
                   => filtered = collection

\* a department and a query are both active and leave some records, not all
C7_Witness ==
    /\ mounted /\ kind = "Staff"
    /\ selectedDepartment # "All"
    /\ ~Blank(searchQuery)
    /\ filtered # <<>>
    /\ Len(filtered) < Len(collection)

\* C8: an activation that finds no item under the module's key leaves the
\* sample set (Staff 5 records with ids 1..5 and codes STAFF001..STAFF005,
\* Course 8, Task 3) in memory and under the key; one that finds the text of a
\* collection leaves that collection in memory and the store as it was.
C8_Activation ==
    [][(~mounted /\ last'.op = "load")
        => /\ Stored = Absent
                => /\ mounted'
                   /\ collection' = Sample(kind)
                   /\ Len(collection') = (CASE kind = "Staff" -> 5 [] kind = "Course" -> 8 [] kind = "Task" -> 3)
                   /\ \A i \in 1..Len(collection') : collection'[i].id = i
                   /\ kind = "Staff" =>
                          \A i \in 1..Len(collection') :
                              STAFF \o padStart(String(collection'[i].id), 3, "0")
                                  = <<"S", "T", "A", "F", "F", "0", "0">> \o String(i)
                   /\ Holds(localStorage'[Key(kind)], collection')
           /\ (Stored.t = "json" /\ Stored.array)
                => /\ mounted'
                   /\ Holds(Stored, collection')
                   /\ localStorage' = localStorage]_vars

\* the Staff module has just activated on an empty store
C8_Witness ==
    /\ mounted /\ kind = "Staff"
    /\ last.op = "load" /\ last.res = "seeded"
    /\ Len(collection) = 5
    /\ Holds(Stored, collection)

\* C9: an activation that finds a malformed item under the module's key ends
\* as one that finds none: mounted, with the sample set in memory and stored.
C9_MalformedReseeds ==
    [][(~mounted /\ last'.op = "load" /\ (Stored.t \in {"empty", "garbage"} \/ (Stored.t = "json" /\ ~Stored.array)))
        => /\ mounted' /\ ~crashed'
           /\ collection' = Sample(kind)
           /\ localStorage'[Key(kind)] = JSONstringify(Sample(kind))]_vars

\* a required field of the form is empty or holds only spaces
RequiredBlank(fd) ==
    CASE kind = "Staff" -> Blank(fd.name) \/ Blank(fd.email)
      [] kind = "Course" -> Blank(fd.courseCode) \/ Blank(fd.courseName) \/ Blank(fd.requiredQualification)
      [] kind = "Task" -> Blank(fd.taskName) \/ Blank(fd.description)

C11_DeclinedDeleteNoEffect ==
    [][(mounted /\ isAdministrator /\ last'.op = "delete" /\ last'.res = "declined")
        => UNCHANGED <<collection, localStorage, selected, activeTab, popup>>]_vars

\* the delete of the record open in Detail was declined while a notification was shown
C11_Witness ==
    /\ mounted /\ isAdministrator
    /\ last.op = "delete" /\ last.res = "declined"
    /\ selected # NoRef /\ selected[1].id = last.arg
    /\ last.arg \in IdsOf(collection)
    /\ popup.show

\* the confirm step of the delete that has just run was asked and answered
Answered == last'.res \in {"ok", "declined"}

\* C12 as stated: a delete, whatever the role, makes no notification visible
\* unless its confirm step has been answered.
C12_NoNotificationBeforeConfirm ==
    [][(mounted /\ last'.op = "delete" /\ popup'.show /\ popup' # popup) => Answered]_vars

\* C12 amended: a delete by the Administrator changes the notification only
\* once its confirm step has been answered, and then only on the answer yes (a
\* notification of kind delete); a caller with another role is shown the
\* permission error and is not asked to confirm.
C12_AdministratorNotifiedAfterYes ==
    [][(mounted /\ last'.op = "delete")
        => IF isAdministrator
           THEN /\ Answered
                /\ last'.res = "declined" => popup' = popup
                /\ last'.res = "ok" => (popup'.show /\ popup'.type = "delete")
           ELSE /\ ~Answered
                /\ popup'.show /\ popup'.type = "error"]_vars

\* the Administrator answered no and no notification is visible
C12_Witness ==
    /\ mounted /\ isAdministrator
    /\ last.op = "delete" /\ last.res = "declined"
    /\ ~popup.show

\* the module shows its form
InForm == activeTab = AddTab(kind)

\* C13: from the Form state, a submit that succeeds (create or update) and a
\* cancel each end in the List state with the edit reference cleared, in the
\* Staff, the Course and the Task module.
C13_FormLeadsToList ==
    [][(mounted /\ InForm /\ (Created \/ Updated \/ last'.op = "cancel"))
        => (activeTab' = ViewTab(kind) /\ editing' = NoRef)]_vars

\* C14: a delete of the record the Detail reference points at leaves the
\* Detail reference none; a delete of any other record leaves it as it was.
C14_DeleteClearsDetail ==
    [][Deleted
        => IF selected # NoRef /\ selected[1].id = last'.arg
           THEN selected' = NoRef
           ELSE selected' = selected]_vars

\* a record other than the one open in Detail has just been deleted
C14_Witness ==
    /\ mounted
    /\ last.op = "delete" /\ last.res = "ok"
    /\ selected # NoRef
    /\ selected[1].id # last.arg
    /\ selected[1] \in {collection[i] : i \in 1..Len(collection)}

\* the caller's own record, in the properties' words: the first record whose
\* email is currentUserEmail ignoring letter case and, when currentUserEmail is
\* empty or no record has it, the first record of the collection
HasEmail(r) == currentUserEmail # <<>> /\ toLowerCase(r.email) = toLowerCase(currentUserEmail)
OwnRecord(list) ==
    IF \E i \in 1..Len(list) : HasEmail(list[i])
    THEN list[CHOOSE i \in 1..Len(list) : HasEmail(list[i]) /\ \A j \in 1..(i - 1) : ~HasEmail(list[j])]
    ELSE list[1]

\* the record an upload step is about
Target == IF last'.op = "upload" THEN last'.arg.id ELSE last'.arg

\* C15: an upload changes the Staff collection (in memory or in the store) only
\* when the role is Administrator or the record open in Detail is the caller's
\* own; a Staff caller's upload to another record ends with an error
\* notification and the collection, the store and the Detail reference as they were.
C15_UploadOwnOrAdministrator ==
    [][(last'.op \in {"upload", "onloadend"})
        => LET list == IF mounted THEN collection ELSE JSONparse(kind, Stored)
           IN  /\ (collection' # collection \/ localStorage' # localStorage)
                      => (isAdministrator \/ (list # <<>> /\ Target = OwnRecord(list).id))
               /\ (mounted /\ isStaff /\ last'.op = "upload" /\ collection # <<>>
                          /\ selected[1].id # OwnRecord(collection).id)
                      => /\ popup'.show /\ popup'.type = "error"
                         /\ pending' = pending
                         /\ UNCHANGED <<collection, localStorage, selected>>]_vars

\* a Staff caller's upload to a record that is not the caller's own was refused
C15_Witness ==
    /\ mounted /\ isStaff
    /\ last.op = "upload" /\ last.res = "denied"
    /\ selected # NoRef /\ selected[1].id # OwnRecord(collection).id
    /\ popup.show /\ popup.type = "error"

\* C16: an upload of a file that is no image or is larger than 5 MB ends with an
\* error notification, no read started and the collection, the store and the
\* Detail reference as they were; for a permitted caller the notification of a
\* too large image names the 5 MB limit, and an image of exactly 5 MB is read.
C16_BadFileRejected ==
    [][(mounted /\ last'.op = "upload")
        => LET file == last'.arg.file
               image == file.type # <<>> /\ file.type[1] = "image/"
               large == file.size > 5 * 1024 * 1024
               permitted == isAdministrator \/ selected[1].id = OwnRecord(collection).id
           IN  /\ (~image \/ large)
                      => /\ popup'.show /\ popup'.type = "error"
                         /\ pending' = pending
                         /\ UNCHANGED <<collection, localStorage, selected>>
               /\ (permitted /\ image /\ large) => popup'.message = "Image size should be less than 5MB."
               /\ (permitted /\ image /\ file.size = 5 * 1024 * 1024)
                      => /\ \E p \in pending' \ pending : p.cb = "read" /\ p.data = selected[1]
                         /\ UNCHANGED <<collection, localStorage, selected, popup>>]_vars

\* an image of one byte more than 5 MB was refused with the message of the limit
C16_Witness ==
    /\ mounted
    /\ last.op = "upload" /\ last.res = "size"
    /\ last.arg.file.size = 5 * 1024 * 1024 + 1
    /\ popup.show /\ popup.type = "error" /\ popup.message = "Image size should be less than 5MB."
    /\ pending = {}

\* C17: the completion of an accepted upload leaves the target record as it was
\* just before but for its profile image, every other record as it was, the
\* store holding the collection, and the Detail reference equal to the target
\* record as it stands in the collection, whatever was done before (an edit of
\* the record after it was opened in Detail included).
C17_UploadMergesImage ==
    [][(mounted /\ last'.op = "onloadend")
        => LET x == last'.arg
           IN  /\ Len(collection') = Len(collection)
               /\ \E i \in 1..Len(collection) : collection[i].id = x
               /\ \A i \in 1..Len(collection) :
                      IF collection[i].id = x
                      THEN [collection'[i] EXCEPT !.profilePicture = collection[i].profilePicture] = collection[i]
                      ELSE collection'[i] = collection[i]
               /\ Holds(localStorage'[Key(kind)], collection')
               /\ selected' # NoRef
               /\ selected'[1].id = x
               /\ \E i \in 1..Len(collection') : collection'[i] = selected'[1]]_vars

\* the stored collection holds the record x with a profile image
StoredWithImage(x) ==
    /\ localStorage'[Key(kind)].t = "json"
    /\ \E i \in 1..Len(localStorage'[Key(kind)].v) :
           /\ localStorage'[Key(kind)].v[i].id = x
           /\ "profilePicture" \in DOMAIN localStorage'[Key(kind)].v[i]
           /\ localStorage'[Key(kind)].v[i].profilePicture \in Pictures

\* C18: under the Staff role the caller's own record is the first record whose
\* email is currentUserEmail ignoring letter case, or the first record of the
\* collection when currentUserEmail is empty or no record has it: it is the
\* record the activation opens in Detail, an upload of an image of at most
\* 5 MB to it by the Staff caller is read, and the completion stores the record
\* with the image and (in the mount that started it) shows it in the
\* collection and in Detail with a notification of kind success.
C18_OwnRecordUpload ==
    [][isStaff
        => /\ (last'.op = "load" /\ mounted' /\ collection' # <<>>)
                  => selected' = Ref(OwnRecord(collection'))
           /\ (mounted /\ last'.op = "upload" /\ collection # <<>>
                    /\ selected[1].id = OwnRecord(collection).id
                    /\ last'.arg.file.type[1] = "image/" /\ last'.arg.file.size <= 5 * 1024 * 1024)
                  => /\ \E p \in pending' \ pending : p.cb = "read" /\ p.data = selected[1]
                     /\ UNCHANGED <<collection, localStorage, selected, popup>>
           /\ (last'.op = "onloadend")
                  => /\ StoredWithImage(last'.arg)
                     /\ \A p \in pending \ pending' :
                            (mounted /\ p.epoch = epoch)
                                => /\ popup'.show /\ popup'.type = "success"
                                   /\ selected' # NoRef /\ selected'[1].id = last'.arg
                                   /\ selected'[1].profilePicture \in Pictures
                                   /\ \E i \in 1..Len(collection') : collection'[i] = selected'[1]]_vars

\* currentUserEmail is the email of no record, and the upload to the first
\* record, the caller's own, has completed
C18_Witness ==
    /\ mounted /\ isStaff
    /\ currentUserEmail # <<>>
    /\ \A i \in 1..Len(collection) : ~HasEmail(collection[i])
    /\ last.op = "onloadend" /\ last.arg = collection[1].id
    /\ collection[1].profilePicture \in Pictures
    /\ selected = Ref(collection[1])
    /\ Holds(Stored, collection)
    /\ popup.show /\ popup.type = "success"

\* the secondary id of a record or of the form, and its prefix
SecondaryId(r) ==
    CASE kind = "Staff" -> r.staffId [] kind = "Course" -> r.courseId [] kind = "Task" -> r.taskId
Prefix == CASE kind = "Staff" -> STAFF [] kind = "Course" -> COURSE [] kind = "Task" -> <<"T">>

\* the number a secondary id carries: its first run of digits, 0 when it has none
RunFrom(text, k) == CHOOSE n \in k..Len(text) : (\A j \in k..n : IsDigit(text[j])) /\ (n = Len(text) \/ ~IsDigit(text[n + 1]))
NumberOf(sid) ==
    IF sid \in {Undef, Null} \/ \A k \in 1..Len(sid) : ~IsDigit(sid[k]) THEN 0
    ELSE LET k == CHOOSE k \in 1..Len(sid) : IsDigit(sid[k]) /\ \A j \in 1..(k - 1) : ~IsDigit(sid[j])
         IN  parseInt(SubSeq(sid, k, RunFrom(sid, k)))

\* the code next in line for the records of list
NextCode(list) ==
    LET numbers == {NumberOf(SecondaryId(list[i])) : i \in 1..Len(list)} \cup {0}
    IN  Prefix \o padStart(String(Greatest(numbers) + 1), 3, "0")

\* C19: after a create or a delete that leaves the form out of edit mode, the
\* secondary id the form offers for the next record is the prefix (STAFF,
\* COURSE, T) and the greatest number carried by a record's secondary id (0
\* when none) plus one, padded to 3 digits; a record created with the offered
\* code never has the secondary id of an earlier record.
C19_OfferedSecondaryId ==
    [][(mounted /\ (Created \/ Deleted) /\ editing' = NoRef)
        => /\ SecondaryId(formData') = NextCode(collection')
           /\ Created => \A i \in 1..Len(collection) :
                             SecondaryId(collection[i]) # SecondaryId(Newest(collection'))]_vars

Notified == last.op \in {"delete", "edit"} /\ last.res \in {"denied", "ok"}

\* C24: a notification that is visible is eventually not visible (or has made
\* way for a new one): the timer of its PopupMessage closes it after the
\* duration unless it is closed before, whatever the user does in the meantime.
C24_NotificationEventuallyCloses == popup.show ~> (~popup.show \/ Notified)

\* C25: a timer of a PopupMessage that fires closes the notification it was
\* started for, and the module is mounted when it fires: the timer of a
\* notification that was replaced, or of a module that was unmounted, was cancelled.
C25_TimerClosesItsOwnNotification ==
    [][(last'.op = "timeout")
         => (mounted /\ popup.show /\ popup = last'.arg /\ ~popup'.show)]_vars

\* the timer of the notification of a refused edit has fired and closed it
C25_Witness ==
    /\ mounted /\ isStaff
    /\ last.op = "timeout" /\ last.res = "closed"
    /\ last.arg.message \in
           {"You do not have permission to edit staff members.",
            "You do not have permission to edit courses.",
            "You do not have permission to edit tasks."}
    /\ ~popup.show

\* C26: at most one notification is visible at a time in a module; in the Staff
\* module the notification of the module and the one AddStaffForm owns are
\* counted together.
C26_AtMostOneNotification == ~(popup.show /\ formPopup.show)

\* the timer of AddStaffForm has run a create: the form has set its own success
\* notification after onStaffAdded, and only the module's is visible
C26_Witness ==
    /\ kind = "Staff" /\ mounted
    /\ last.op = "create" /\ last.res = "ok"
    /\ popup = Popup("Staff member added successfully!", "success")
    /\ ~formPopup.show

\* the records of a list that satisfy the criteria, in the order of the list
RECURSIVE Kept(_)
Kept(list) ==
    IF list = <<>> THEN <<>>
    ELSE IF Shown(Head(list)) THEN <<Head(list)>> \o Kept(Tail(list))
    ELSE Kept(Tail(list))

Completed == last'.op \in {"create", "update", "delete", "onloadend"} /\ last'.res = "ok"
Refused == last'.res \in {"denied", "invalid", "type", "size"}

\* C22: the store is written by the handler that computes a new collection, before
\* it sets the notification: whenever a success or delete notification becomes
\* visible the store holds the collection the module then has in memory, and a
\* step that makes an error notification visible writes nothing.
C22_StoredWhenNotified ==
    [][(mounted' /\ popup'.show /\ (popup' # popup \/ Completed \/ Refused))
         => IF popup'.type = "error"
            THEN localStorage' = localStorage
            ELSE Holds(localStorage'[Key(kind)], collection')]_vars

\* the read of an uploaded image has completed: the success notification is
\* visible, and the record with the image is in the store
C22_Witness ==
    /\ mounted /\ kind = "Staff"
    /\ last.op = "onloadend"
    /\ popup = Popup("Profile picture updated successfully!", "success")
    /\ \E i \in 1..Len(Stored.v) :
           /\ Stored.v[i].id = last.arg
           /\ "profilePicture" \in DOMAIN Stored.v[i]
           /\ Stored.v[i].profilePicture \in Pictures

\* the list is the snapshot with the image put into the target and nothing else changed
ImageInto(list, snapshot, target) ==
    /\ Len(list) = Len(snapshot)
    /\ \A i \in 1..Len(snapshot) :
           IF snapshot[i].id = target.id
           THEN /\ list[i].profilePicture \in Pictures
                /\ \A f \in DOMAIN target : f # "profilePicture" => list[i][f] = target[f]
           ELSE list[i] = snapshot[i]

\* C23: when a second upload is started before the first has completed, both
\* completions run, and each writes the collection of the render its upload was
\* started in with its own image put in (to the store, and to the memory of the
\* module that started it): after both, the collection and the store are the
\* ones written by the completion that ran last, whatever the other one wrote.
C23_LastWriteWins ==
    [][\A p \in pending \ pending' :
          p.cb = "read"
            => /\ ImageInto(JSONparse("Staff", localStorage'[Key("Staff")]), p.snap, p.data)
               /\ (mounted /\ p.epoch = epoch) => ImageInto(collection', p.snap, p.data)]_vars

\* the first of two reads has completed and its image is in the collection; the
\* second, started before on another record, is pending with a snapshot that
\* lacks that image, and can complete
C23_Witness ==
    /\ mounted /\ kind = "Staff"
    /\ last.op = "onloadend"
    /\ mutations < MaxMutations
    /\ \E p \in pending :
           /\ p.cb = "read"
           /\ p.data.id # last.arg
           /\ \E i \in 1..Len(collection) :
                  /\ collection[i].id = last.arg
                  /\ collection[i].profilePicture \in Pictures
                  /\ p.snap[i].profilePicture \notin Pictures

\* no two records of the list have the same id
Distinct(list) == \A i, j \in 1..Len(list) : i # j => list[i].id # list[j].id

\* C27: the ids of the collection found at activation being pairwise distinct,
\* the ids of the collection in memory and of the stored collection stay
\* pairwise distinct, in every order of creates, updates, deletes, completions
\* of the delayed Staff submit and completions of image reads.
C27_IdsStayDistinct ==
    /\ mounted => Distinct(collection)
    /\ (Stored.t = "json" /\ Stored.array) => Distinct(Stored.v)

\* the delayed Staff submit has completed a create while a read of an image,
\* started before it, is pending: the read's snapshot lacks the new record
C27_Witness ==
    /\ mounted /\ kind = "Staff"
    /\ last.op = "create" /\ last.res = "ok"
    /\ \E p \in pending : p.cb = "read" /\ Len(p.snap) < Len(collection)
    /\ Len(collection) > 1

\* C28: in a single tab, after every handler and every completion callback, the
\* value stored under the module's key is the text of exactly the collection the
\* module has in memory, from the activation onwards.
C28_StoreMirrorsMemory == mounted => Holds(Stored, collection)

\* C29: once a confirmed delete, a create or an update has completed, no later
\* step undoes it: a completion of the delayed submit or of an image read leaves
\* every record of the collection it finds as it is, but for the one record it
\* creates or updates, and puts back no record the collection no longer has.
C29_CompletedNotUndone ==
    [][(mounted /\ last'.op \in {"create", "update", "onloadend"} /\ last'.res = "ok")
         => /\ \A i \in 1..Len(collection') :
                   \/ collection'[i].id = last'.arg
                   \/ \E j \in 1..Len(collection) : collection[j] = collection'[i]
            /\ \A j \in 1..Len(collection) :
                   \/ collection[j].id = last'.arg
                   \/ \E i \in 1..Len(collection') : collection'[i] = collection[j]]_vars

\* C30: whenever the edit reference is set, the collection holds a record with
\* the id it refers to (so that an update that reports success has changed
\* exactly one record), also after the form was left by a tab button and the
\* record in edit was deleted from the list.
C30_EditReferenceValid ==
    (mounted /\ editing # NoRef) => editing[1].id \in IdsOf(collection)

====
